---- MODULE Spec2Model ----
(***************************************************************************)
(* TikTokAnalyzer (src/src/analysis/tiktokAnalyzer.js): engagement rate,   *)
(* the four group-by/average/rank aggregators, the recommendation builder  *)
(* and the batch entry point.                                              *)
(*                                                                         *)
(* Representation.                                                         *)
(*  - A JS number is a record [k, n, d]: k = "fin" is the non-negative     *)
(*    rational n/d in lowest terms, the other kinds are NaN, +Infinity and *)
(*    -Infinity.  The aggregators are run on views of 0 and 2, so every    *)
(*    rate and sum is a small dyadic rational and every average a quotient *)
(*    of one by a small count: equal rationals are equal doubles and       *)
(*    different ones differ.  Durations stay far below 10^21, where a      *)
(*    number used as a property key no longer prints in plain decimal.     *)
(*  - Math.log10 is the table Log10Micro (10^6 * log10 v, rounded), so a   *)
(*    performanceScore is held in units of 10^-6.                          *)
(*  - A JS string used as a property key is a tuple of one-character       *)
(*    strings, so that number->string and string->number are computed.     *)
(*  - A JS object is the sequence of its own [key, value] properties in   *)
(*    creation order; OwnKeys gives the language's enumeration order.      *)
(***************************************************************************)
EXTENDS Integers, Sequences, FiniteSets

\* ---------------------------------------------------------------- bounds
MaxLikes == 2
MaxComments == 2
MaxShares == 2
MaxViews == 3
MaxDurationVideos == 3
MaxPostingVideos == 6
MaxHashtagVideos == 2
MaxTagsPerVideo == 2
MaxMusicVideos == 3
MaxBatchVideos == 2
MaxRecTimes == 4
MaxRecHashtags == 6
MaxRecMusic == 4

\* ------------------------------------------------------ program constants
TopPostingTimes == 5
RecBestTimes == 3
RecHashtags == 5
RecMusic == 3

\* ---------------------------------------------------------------- numbers
RECURSIVE GCD(_, _)
GCD(a, b) == IF b = 0 THEN a ELSE GCD(b, a % b)

Num(n, d) == LET g == GCD(n, d) IN [k |-> "fin", n |-> n \div g, d |-> d \div g]

Zero == [k |-> "fin", n |-> 0, d |-> 1]
NaN == [k |-> "NaN", n |-> 0, d |-> 1]
PosInf == [k |-> "Infinity", n |-> 0, d |-> 1]
NegInf == [k |-> "-Infinity", n |-> 0, d |-> 1]

IsFinite(x) == x.k = "fin"

\* a + b
Add(a, b) ==
    IF a.k = "NaN" \/ b.k = "NaN" THEN NaN
    ELSE IF IsFinite(a) /\ IsFinite(b) THEN Num(a.n * b.d + b.n * a.d, a.d * b.d)
    ELSE IF IsFinite(a) THEN b
    ELSE IF IsFinite(b) \/ a.k = b.k THEN a
    ELSE NaN

\* a / c for an integer c >= 0
DivInt(a, c) ==
    IF a.k = "NaN" THEN NaN
    ELSE IF ~IsFinite(a) THEN a
    ELSE IF c = 0 THEN (IF a.n = 0 THEN NaN ELSE PosInf)
    ELSE Num(a.n, a.d * c)

\* a * b for a >= 0
Mul(a, b) ==
    IF a.k = "NaN" \/ b.k = "NaN" THEN NaN
    ELSE IF IsFinite(a) /\ IsFinite(b) THEN Num(a.n * b.n, a.d * b.d)
    ELSE IF IsFinite(a) THEN (IF a.n = 0 THEN NaN ELSE b)
    ELSE IF IsFinite(b) THEN (IF b.n = 0 THEN NaN ELSE a)
    ELSE IF a.k = b.k THEN PosInf ELSE NegInf

\* position of a non-NaN value on the extended line, for comparisons
Rank(x) == IF x.k = "-Infinity" THEN 0 ELSE IF x.k = "fin" THEN 1 ELSE 2

\* a < b  (false when either is NaN)
Less(a, b) ==
    /\ a.k # "NaN"
    /\ b.k # "NaN"
    /\ \/ Rank(a) < Rank(b)
       \/ IsFinite(a) /\ IsFinite(b) /\ a.n * b.d < b.n * a.d

\* the sign of b - a as a sort comparator sees it: "NaN", -1, 0 or 1
SubSign(b, a) ==
    IF a.k = "NaN" \/ b.k = "NaN" THEN "NaN"
    ELSE IF ~IsFinite(a) /\ a.k = b.k THEN "NaN"
    ELSE IF Less(a, b) THEN "pos"
    ELSE IF Less(b, a) THEN "neg"
    ELSE "zero"

Log10Micro ==
    << 0, 301030, 477121, 602060, 698970, 778151, 845098, 903090, 954243,
       1000000, 1041393, 1079181, 1113943, 1146128, 1176091, 1204120, 1230449,
       1255273, 1278754, 1301030, 1322219, 1342423, 1361728, 1380211, 1397940,
       1414973, 1431364, 1447158, 1462398, 1477121, 1491362, 1505150 >>

\* Math.log10 of a non-negative integer, in units of 10^-6
Log10(v) == IF v = 0 THEN NegInf ELSE Num(Log10Micro[v], 1)

\* Math.floor of a non-negative finite number
Floor(x) == x.n \div x.d

\* ---------------------------------------------------------------- strings
Digits == << "0", "1", "2", "3", "4", "5", "6", "7", "8", "9" >>

IsDigit(c) == \E i \in 1..Len(Digits) : Digits[i] = c

DigitValue(c) == (CHOOSE i \in 1..Len(Digits) : Digits[i] = c) - 1

\* Number::toString of a non-negative integer
RECURSIVE ToString(_)
ToString(n) ==
    IF n < Len(Digits) THEN << Digits[n + 1] >>
    ELSE ToString(n \div Len(Digits)) \o << Digits[(n % Len(Digits)) + 1] >>

\* value of the longest prefix of digits of s, given the value acc read so far
RECURSIVE ParseDigits(_, _)
ParseDigits(s, acc) ==
    IF s = << >> \/ ~IsDigit(Head(s)) THEN acc
    ELSE ParseDigits(Tail(s), acc * Len(Digits) + DigitValue(Head(s)))

\* parseInt(s) with no radix, s without leading blanks or sign
parseInt(s) ==
    IF s = << >> \/ ~IsDigit(Head(s)) THEN NaN ELSE Num(ParseDigits(s, 0), 1)

\* s is a canonical array index: the decimal form of an integer 0 .. 2^32 - 2.
\* Keys of ten digits or more do not occur within the bounds.
IsArrayIndex(s) ==
    /\ s # << >>
    /\ Len(s) < Len(Digits)
    /\ \A i \in 1..Len(s) : IsDigit(s[i])
    /\ (Len(s) = 1 \/ s[1] # "0")

\* ---------------------------------------------------------------- objects
\* The properties every object literal inherits from Object.prototype; each is
\* a function or an object, hence truthy.
ObjectPrototypeKeys ==
    { << "c", "o", "n", "s", "t", "r", "u", "c", "t", "o", "r" >>,
      << "_", "_", "p", "r", "o", "t", "o", "_", "_" >>,
      << "h", "a", "s", "O", "w", "n", "P", "r", "o", "p", "e", "r", "t", "y" >>,
      << "i", "s", "P", "r", "o", "t", "o", "t", "y", "p", "e", "O", "f" >>,
      << "p", "r", "o", "p", "e", "r", "t", "y", "I", "s", "E", "n", "u", "m", "e", "r", "a", "b", "l", "e" >>,
      << "t", "o", "L", "o", "c", "a", "l", "e", "S", "t", "r", "i", "n", "g" >>,
      << "t", "o", "S", "t", "r", "i", "n", "g" >>,
      << "v", "a", "l", "u", "e", "O", "f" >>,
      << "_", "_", "d", "e", "f", "i", "n", "e", "G", "e", "t", "t", "e", "r", "_", "_" >>,
      << "_", "_", "d", "e", "f", "i", "n", "e", "S", "e", "t", "t", "e", "r", "_", "_" >>,
      << "_", "_", "l", "o", "o", "k", "u", "p", "G", "e", "t", "t", "e", "r", "_", "_" >>,
      << "_", "_", "l", "o", "o", "k", "u", "p", "S", "e", "t", "t", "e", "r", "_", "_" >> }

\* {}
EmptyObject == << >>

HasOwn(obj, key) == \E i \in 1..Len(obj) : obj[i].key = key

\* obj[key] of an own property
Get(obj, key) == obj[CHOOSE i \in 1..Len(obj) : obj[i].key = key].value

\* the truth value of obj[key]: own values are records, inherited ones are
\* functions or Object.prototype itself, a missing property is undefined
Truthy(obj, key) == HasOwn(obj, key) \/ key \in ObjectPrototypeKeys

\* obj[key] = value on an own or a new property
Put(obj, key, value) ==
    IF HasOwn(obj, key)
    THEN [i \in 1..Len(obj) |-> IF obj[i].key = key THEN [key |-> key, value |-> value] ELSE obj[i]]
    ELSE Append(obj, [key |-> key, value |-> value])

\* the array-index keys of a set, ascending by numeric value
RECURSIVE AscendingIndexKeys(_)
AscendingIndexKeys(keys) ==
    IF keys = {} THEN << >>
    ELSE LET least == CHOOSE k \in keys :
                          \A other \in keys : ParseDigits(k, 0) <= ParseDigits(other, 0)
         IN << least >> \o AscendingIndexKeys(keys \ {least})

\* the own keys in creation order, whatever their form
OwnKeys_CreationOrder(obj) == [i \in 1..Len(obj) |-> obj[i].key]

\* OrdinaryOwnPropertyKeys: array indices ascending, then the other string keys
\* in the order of their creation
OwnKeys(obj) ==
    LET created == [i \in 1..Len(obj) |-> obj[i].key]
        indices == {created[i] : i \in {j \in 1..Len(obj) : IsArrayIndex(created[j])}}
    IN AscendingIndexKeys(indices) \o SelectSeq(created, LAMBDA k : ~IsArrayIndex(k))

\* Object.entries(obj)
Entries(obj) ==
    LET keys == OwnKeys(obj)
    IN [i \in 1..Len(keys) |-> [key |-> keys[i], value |-> Get(obj, keys[i])]]

\* ------------------------------------------------------------------ arrays
\* array.slice(0, end)
Slice(array, end) == SubSeq(array, 1, IF Len(array) < end THEN Len(array) ELSE end)

\* what the comparator (a, b) => Score(b) - Score(a) yields once sort has
\* replaced a NaN result by +0
Compare(a, b) == LET s == SubSign(b, a) IN IF s = "NaN" THEN "zero" ELSE s

\* the comparator is a consistent comparison function on the scores
Consistent(scores) ==
    \A i, j, k \in 1..Len(scores) :
        /\ (Compare(scores[i], scores[j]) = "zero" /\ Compare(scores[j], scores[k]) = "zero")
               => Compare(scores[i], scores[k]) = "zero"
        /\ (Compare(scores[i], scores[j]) = "neg" /\ Compare(scores[j], scores[k]) = "neg")
               => Compare(scores[i], scores[k]) = "neg"
        /\ (Compare(scores[i], scores[j]) = "pos" /\ Compare(scores[j], scores[k]) = "pos")
               => Compare(scores[i], scores[k]) = "pos"

\* the permutations of 1..n
Permutations(n) == {p \in [1..n -> 1..n] : \A i, j \in 1..n : p[i] = p[j] => i = j}

\* the stable descending order: j comes before i when the comparator puts it
\* first, or calls them equal and j was first
StableOrder(scores) ==
    LET n == Len(scores)
        before(j, i) == \/ Compare(scores[j], scores[i]) = "neg"
                        \/ Compare(scores[j], scores[i]) = "zero" /\ j < i
        place(i) == 1 + Cardinality({j \in 1..n : j # i /\ before(j, i)})
    IN [p \in 1..n |-> CHOOSE i \in 1..n : place(i) = p]

\* Array.prototype.sort with the comparator above: the orders it may produce,
\* as index permutations.  Stable for a consistent comparator; with an
\* inconsistent one the language leaves the order to the implementation.
SortOrders(scores) ==
    IF Consistent(scores) THEN {StableOrder(scores)} ELSE Permutations(Len(scores))

\* ------------------------------------------------------------------ videos
Stats == [likes : 0..MaxLikes, comments : 0..MaxComments, shares : 0..MaxShares, views : 0..MaxViews]

MkStats(likes, comments, shares, views) ==
    [likes |-> likes, comments |-> comments, shares |-> shares, views |-> views]

\* duration is a number of seconds, createTime a number of hours since the
\* epoch (the milliseconds of the code divided by 3 600 000), hashtags a list
\* of strings, music a string
Video(stats, duration, createTime, hashtags, music) ==
    [id |-> "v", stats |-> stats, duration |-> duration, createTime |-> createTime,
     hashtags |-> hashtags, music |-> music]

\* the stats the aggregators are run on: engagement 0 with no views, engagement
\* 0 with views, 1/2 and 1
AggStats == { MkStats(1, 1, 1, 0), MkStats(0, 0, 0, 2), MkStats(1, 0, 0, 2), MkStats(0, 1, 1, 2) }

\* 0.5, 1, 1.5, 2 and 10.5 seconds
Durations == { Num(1, 2), Num(1, 1), Num(3, 2), Num(2, 1), Num(21, 2) }

DurationVideos == { Video(s, d, 0, << >>, << "m" >>) : s \in AggStats, d \in Durations }

\* six posting hours in six different (day, hour) slots, each with its stats
PostingPairs ==
    { << 14, MkStats(1, 0, 0, 2) >>, << 62, MkStats(0, 1, 1, 2) >>, << 72, MkStats(1, 0, 0, 2) >>,
      << 105, MkStats(1, 1, 1, 0) >>, << 263, MkStats(0, 1, 1, 2) >>, << 278, MkStats(1, 0, 0, 2) >> }

PostingVideos == { Video(p[2], Num(1, 1), p[1], << >>, << "m" >>) : p \in PostingPairs }

\* keys for hashtags and music: two words, two strings of digits, a string of
\* digits that is no array index, and a name every object inherits
Keys == { << "a" >>, << "b" >>, << "7" >>, << "1", "0" >>, << "0", "7" >>, << "v", "a", "l", "u", "e", "O", "f" >> }

TagKeys == { << "a" >>, << "b" >>, << "7" >>, << "1", "0" >>, << "v", "a", "l", "u", "e", "O", "f" >> }

RECURSIVE SeqsOfLen(_, _)
SeqsOfLen(S, n) ==
    IF n = 0 THEN { << >> } ELSE { Append(s, x) : s \in SeqsOfLen(S, n - 1), x \in S }

SeqsUpTo(S, n) == UNION { SeqsOfLen(S, m) : m \in 0..n }

HashtagVideos ==
    { Video(s, Num(1, 1), 0, tags, << "m" >>) : s \in AggStats, tags \in SeqsUpTo(TagKeys, MaxTagsPerVideo) }

MusicVideos == { Video(s, Num(1, 1), 0, << >>, m) : s \in AggStats, m \in Keys }

\* ------------------------------------------------- calculateEngagementRate
\* calculateEngagementRate without the shares
calculateEngagementRate_NoShares(video) ==
    LET likes == video.stats.likes
        comments == video.stats.comments
        views == video.stats.views
        engagementActions == likes + comments
    IN IF views > 0 THEN DivInt(Num(engagementActions, 1), views) ELSE Zero

calculateEngagementRate(video) ==
    LET likes == video.stats.likes
        comments == video.stats.comments
        shares == video.stats.shares
        views == video.stats.views
        engagementActions == likes + comments + shares
    IN IF views > 0 THEN DivInt(Num(engagementActions, 1), views) ELSE Zero

\* --------------------------------------------------------- analyzeDuration
\* DurationStep that counts a video only when it creates the group
DurationStep_CountOnCreate(durationGroups, video) ==
    LET duration == ToString(Floor(video.duration))
        created == ~Truthy(durationGroups, duration)
        groups == IF created
                  THEN Put(durationGroups, duration,
                           [count |-> 1, totalEngagement |-> Zero, videos |-> << >>])
                  ELSE durationGroups
        engagement == calculateEngagementRate(video)
        group == Get(groups, duration)
    IN Put(groups, duration,
           [count |-> group.count,
            totalEngagement |-> Add(group.totalEngagement, engagement),
            videos |-> Append(group.videos, video)])

\* the forEach callback of lines 22-35
DurationStep(durationGroups, video) ==
    LET duration == ToString(Floor(video.duration))
        groups == IF ~Truthy(durationGroups, duration)
                  THEN Put(durationGroups, duration,
                           [count |-> 0, totalEngagement |-> Zero, videos |-> << >>])
                  ELSE durationGroups
        engagement == calculateEngagementRate(video)
        group == Get(groups, duration)
    IN Put(groups, duration,
           [count |-> group.count + 1,
            totalEngagement |-> Add(group.totalEngagement, engagement),
            videos |-> Append(group.videos, video)])

\* BestDuration with >= in place of > at line 45
RECURSIVE BestDuration_NotStrict(_, _)
BestDuration_NotStrict(entries, bestDuration) ==
    IF entries = << >> THEN bestDuration
    ELSE LET duration == Head(entries).key
             data == Head(entries).value
             avgEngagement == DivInt(data.totalEngagement, data.count)
         IN BestDuration_NotStrict(Tail(entries),
                IF ~Less(avgEngagement, bestDuration.avgEngagement)
                THEN [duration |-> parseInt(duration), avgEngagement |-> avgEngagement,
                      sampleSize |-> data.count]
                ELSE bestDuration)

\* the forEach of lines 43-52 over the entries left, bestDuration so far
RECURSIVE BestDuration(_, _)
BestDuration(entries, bestDuration) ==
    IF entries = << >> THEN bestDuration
    ELSE LET duration == Head(entries).key
             data == Head(entries).value
             avgEngagement == DivInt(data.totalEngagement, data.count)
         IN BestDuration(Tail(entries),
                IF Less(bestDuration.avgEngagement, avgEngagement)
                THEN [duration |-> parseInt(duration), avgEngagement |-> avgEngagement,
                      sampleSize |-> data.count]
                ELSE bestDuration)

\* lines 37-54
DurationResult(durationGroups) ==
    BestDuration(Entries(durationGroups), [duration |-> Zero, avgEngagement |-> Zero])

\* ----------------------------------------------------- analyzePostingTimes
\* Date.prototype.getHours and getDay of new Date(createTime), local time UTC;
\* the epoch was a Thursday
getHours(createTime) == createTime % 24

getDay(createTime) == (4 + (createTime \div 24)) % 7

\* the forEach callback of lines 61-80
PostingStep(timeSlots, video) ==
    LET hour == getHours(video.createTime)
        dayOfWeek == getDay(video.createTime)
        timeSlotKey == ToString(dayOfWeek) \o << "-" >> \o ToString(hour)
        slots == IF ~Truthy(timeSlots, timeSlotKey)
                 THEN Put(timeSlots, timeSlotKey,
                          [count |-> 0, totalEngagement |-> Zero, day |-> dayOfWeek, hour |-> hour])
                 ELSE timeSlots
        engagement == calculateEngagementRate(video)
        slot == Get(slots, timeSlotKey)
    IN Put(slots, timeSlotKey,
           [slot EXCEPT !.count = slot.count + 1,
                        !.totalEngagement = Add(slot.totalEngagement, engagement)])

\* the map of lines 84-87
PostingEntries(timeSlots) ==
    LET entries == Entries(timeSlots)
    IN [i \in 1..Len(entries) |->
           [count |-> entries[i].value.count,
            totalEngagement |-> entries[i].value.totalEngagement,
            day |-> entries[i].value.day,
            hour |-> entries[i].value.hour,
            avgEngagement |-> DivInt(entries[i].value.totalEngagement, entries[i].value.count)]]

\* PostingResults with the slice taken before the sort
PostingResults_SliceFirst(timeSlots) ==
    LET mapped == Slice(PostingEntries(timeSlots), TopPostingTimes)
        scores == [i \in 1..Len(mapped) |-> mapped[i].avgEngagement]
    IN { [i \in 1..Len(mapped) |-> mapped[order[i]]] : order \in SortOrders(scores) }

\* lines 83-89: the arrays the sort and the slice may return
PostingResults(timeSlots) ==
    LET mapped == PostingEntries(timeSlots)
        scores == [i \in 1..Len(mapped) |-> mapped[i].avgEngagement]
    IN { Slice([i \in 1..Len(mapped) |-> mapped[order[i]]], TopPostingTimes) :
             order \in SortOrders(scores) }

\* --------------------------------------------------------- analyzeHashtags
\* the inner forEach of lines 97-112 over the tags left of one video.  A tag
\* that names an inherited property finds it truthy at line 98, so no group is
\* created, lines 108-110 write to the inherited function, and line 111 reads
\* its missing videos member: TypeError.
RECURSIVE HashtagTags(_, _, _)
HashtagTags(hashtagStats, video, tags) ==
    IF tags = << >> THEN [stats |-> hashtagStats, threw |-> FALSE]
    ELSE LET tag == Head(tags)
             created == IF ~Truthy(hashtagStats, tag)
                        THEN Put(hashtagStats, tag,
                                 [count |-> 0, totalEngagement |-> Zero, totalViews |-> 0,
                                  videos |-> << >>])
                        ELSE hashtagStats
             engagement == calculateEngagementRate(video)
         IN IF ~HasOwn(created, tag) THEN [stats |-> created, threw |-> TRUE]
            ELSE LET group == Get(created, tag)
                 IN HashtagTags(
                        Put(created, tag,
                            [count |-> group.count + 1,
                             totalEngagement |-> Add(group.totalEngagement, engagement),
                             totalViews |-> group.totalViews + video.stats.views,
                             videos |-> Append(group.videos, video.id)]),
                        video, Tail(tags))

\* the tags of a list, each once, in the order of their first occurrence
RECURSIVE Distinct(_)
Distinct(tags) ==
    IF tags = << >> THEN << >>
    ELSE << Head(tags) >> \o Distinct(SelectSeq(Tail(tags), LAMBDA t : t # Head(tags)))

\* HashtagStep over the distinct tags of the video
HashtagStep_Deduplicated(hashtagStats, video) ==
    HashtagTags(hashtagStats, video, Distinct(video.hashtags))

\* the outer forEach callback of lines 96-113
HashtagStep(hashtagStats, video) == HashtagTags(hashtagStats, video, video.hashtags)

\* the map of lines 117-123
HashtagEntries(hashtagStats) ==
    LET entries == Entries(hashtagStats)
    IN [i \in 1..Len(entries) |->
           LET stats == entries[i].value
           IN [tag |-> entries[i].key,
               avgEngagement |-> DivInt(stats.totalEngagement, stats.count),
               totalViews |-> stats.totalViews,
               useCount |-> stats.count,
               performanceScore |->
                   Mul(DivInt(stats.totalEngagement, stats.count), Log10(stats.totalViews))]]

\* lines 116-124: the arrays the sort may return
HashtagResults(hashtagStats) ==
    LET mapped == HashtagEntries(hashtagStats)
        scores == [i \in 1..Len(mapped) |-> mapped[i].performanceScore]
    IN { [i \in 1..Len(mapped) |-> mapped[order[i]]] : order \in SortOrders(scores) }

\* ------------------------------------------------------------ analyzeMusic
\* the forEach callback of lines 131-147; an inherited name fails at line 146
MusicStep(musicStats, video) ==
    LET music == video.music
        created == IF ~Truthy(musicStats, music)
                   THEN Put(musicStats, music,
                            [count |-> 0, totalEngagement |-> Zero, totalViews |-> 0,
                             videos |-> << >>])
                   ELSE musicStats
        engagement == calculateEngagementRate(video)
    IN IF ~HasOwn(created, music) THEN [stats |-> created, threw |-> TRUE]
       ELSE LET group == Get(created, music)
            IN [stats |-> Put(created, music,
                              [count |-> group.count + 1,
                               totalEngagement |-> Add(group.totalEngagement, engagement),
                               totalViews |-> group.totalViews + video.stats.views,
                               videos |-> Append(group.videos, video.id)]),
                threw |-> FALSE]

\* the map of lines 150-156
MusicEntries(musicStats) ==
    LET entries == Entries(musicStats)
    IN [i \in 1..Len(entries) |->
           LET stats == entries[i].value
           IN [music |-> entries[i].key,
               avgEngagement |-> DivInt(stats.totalEngagement, stats.count),
               totalViews |-> stats.totalViews,
               useCount |-> stats.count,
               performanceScore |->
                   Mul(DivInt(stats.totalEngagement, stats.count), Log10(stats.totalViews))]]

\* lines 149-157: the arrays the sort may return
MusicResults(musicStats) ==
    LET mapped == MusicEntries(musicStats)
        scores == [i \in 1..Len(mapped) |-> mapped[i].performanceScore]
    IN { [i \in 1..Len(mapped) |-> mapped[order[i]]] : order \in SortOrders(scores) }

\* ------------------------------------------------- generateRecommendations
days == << "dimanche", "lundi", "mardi", "mercredi", "jeudi", "vendredi", "samedi" >>

\* formatTimeRecommendation with a table that starts on Monday
formatTimeRecommendation_MondayFirst(timeSlot) ==
    << days[((timeSlot.day + 1) % Len(days)) + 1], " à " >> \o ToString(timeSlot.hour) \o << "h00" >>

\* lines 185-188, for a time slot that is an object
formatTimeRecommendation(timeSlot) ==
    << IF timeSlot.day \in 0..(Len(days) - 1) THEN days[timeSlot.day + 1] ELSE "undefined", " à " >>
        \o ToString(timeSlot.hour) \o << "h00" >>

\* the template literal's string of a number that is an integer or NaN
NumberToString(x) == IF x.k = "NaN" THEN << "N", "a", "N" >> ELSE ToString(Floor(x))

\* line 165 evaluates formatTimeRecommendation(bestPostingTimes[0]); with an
\* empty array the argument is undefined and line 187 reads a property of it:
\* TypeError
RecommendationsThrow(analysisResults) == analysisResults.bestPostingTimes = << >>

\* lines 161-182, when line 165 does not throw
generateRecommendations(analysisResults) ==
    [timing |->
        [bestTimes |-> Slice(analysisResults.bestPostingTimes, RecBestTimes),
         recommendation |->
             << "Postez vos vidéos " >>
                 \o formatTimeRecommendation(analysisResults.bestPostingTimes[1])],
     duration |->
        [optimal |-> analysisResults.optimalDuration,
         recommendation |->
             << "Visez une durée de " >> \o NumberToString(analysisResults.optimalDuration.duration)
                 \o << " secondes pour un engagement optimal" >>],
     hashtags |->
        [recommended |-> Slice(analysisResults.topHashtags, RecHashtags),
         recommendation |-> "Utilisez une combinaison de ces hashtags performants"],
     music |->
        [trending |-> Slice(analysisResults.topMusic, RecMusic),
         recommendation |-> "Ces musiques ont généré le plus d'engagement"]]

\* ------------------------------------------------------- whole-call folds
RECURSIVE DurationGroupsOf(_, _)
DurationGroupsOf(durationGroups, list) ==
    IF list = << >> THEN durationGroups
    ELSE DurationGroupsOf(DurationStep(durationGroups, Head(list)), Tail(list))

RECURSIVE TimeSlotsOf(_, _)
TimeSlotsOf(timeSlots, list) ==
    IF list = << >> THEN timeSlots
    ELSE TimeSlotsOf(PostingStep(timeSlots, Head(list)), Tail(list))

RECURSIVE HashtagStatsOf(_, _)
HashtagStatsOf(hashtagStats, list) ==
    IF list = << >> THEN [stats |-> hashtagStats, threw |-> FALSE]
    ELSE LET step == HashtagStep(hashtagStats, Head(list))
         IN IF step.threw THEN step ELSE HashtagStatsOf(step.stats, Tail(list))

RECURSIVE MusicStatsOf(_, _)
MusicStatsOf(musicStats, list) ==
    IF list = << >> THEN [stats |-> musicStats, threw |-> FALSE]
    ELSE LET step == MusicStep(musicStats, Head(list))
         IN IF step.threw THEN step ELSE MusicStatsOf(step.stats, Tail(list))

\* ------------------------------------------------------------ batch inputs
BatchVideos ==
    { Video(s, d, t, tags, m) :
          s \in { MkStats(1, 0, 0, 2), MkStats(1, 1, 1, 0) },
          d \in { Num(3, 2), Num(21, 2) },
          t \in { 14, 62 },
          tags \in { << << "b" >>, << "7" >> >>, << << "v", "a", "l", "u", "e", "O", "f" >> >> },
          m \in { << "a" >>, << "7" >> } }

\* -------------------------------------------- generateRecommendations inputs
RecDurations ==
    { [duration |-> Zero, avgEngagement |-> Zero],
      [duration |-> Num(15, 1), avgEngagement |-> Num(1, 5), sampleSize |-> 1] }

RecTimeEntries ==
    { [count |-> 1, totalEngagement |-> Num(1, 2), day |-> 1, hour |-> 14, avgEngagement |-> Num(1, 2)],
      [count |-> 2, totalEngagement |-> Num(1, 2), day |-> 6, hour |-> 9, avgEngagement |-> Num(1, 4)] }

RecTagEntries ==
    { [tag |-> << "a" >>, avgEngagement |-> Num(1, 2), totalViews |-> 2, useCount |-> 1,
       performanceScore |-> Num(150515, 1)],
      [tag |-> << "7" >>, avgEngagement |-> Zero, totalViews |-> 0, useCount |-> 1,
       performanceScore |-> NaN] }

RecMusicEntries ==
    { [music |-> << "a" >>, avgEngagement |-> Num(1, 2), totalViews |-> 2, useCount |-> 1,
       performanceScore |-> Num(150515, 1)],
      [music |-> << "b" >>, avgEngagement |-> Num(1, 1), totalViews |-> 2, useCount |-> 1,
       performanceScore |-> Num(301030, 1)] }

RecInputs ==
    [optimalDuration : RecDurations,
     bestPostingTimes : SeqsUpTo(RecTimeEntries, MaxRecTimes),
     topHashtags : SeqsUpTo(RecTagEntries, MaxRecHashtags),
     topMusic : SeqsUpTo(RecMusicEntries, MaxRecMusic)]

\* ------------------------------------------------------------------- state
VARIABLES
    pc,               \* "idle", "forEach" (inside an aggregation loop), "returned", "threw"
    method,           \* the public method that was called
    videos,           \* the videos argument, as far as the loop has read it
    durationGroups,   \* line 21
    timeSlots,        \* line 59
    hashtagStats,     \* line 94
    musicStats,       \* line 129
    analysisResults,  \* line 192, and the argument of generateRecommendations
    result            \* the value returned

vars == << pc, method, videos, durationGroups, timeSlots, hashtagStats, musicStats,
           analysisResults, result >>

\* lines 3-9: the thresholds, which no method reads
engagementThresholds == [high |-> Num(15, 100), medium |-> Num(8, 100), low |-> Num(3, 100)]

Init ==
    /\ pc = "idle"
    /\ method = "none"
    /\ videos = << >>
    /\ durationGroups = EmptyObject
    /\ timeSlots = EmptyObject
    /\ hashtagStats = EmptyObject
    /\ musicStats = EmptyObject
    /\ analysisResults = << >>
    /\ result = << >>

\* calculateEngagementRate(video), lines 12-16
CallCalculateEngagementRate ==
    /\ pc = "idle"
    /\ \E stats \in Stats :
           LET video == Video(stats, Num(1, 1), 0, << >>, << "m" >>)
           IN /\ videos' = << video >>
              /\ result' = calculateEngagementRate(video)
    /\ pc' = "returned"
    /\ method' = "calculateEngagementRate"
    /\ UNCHANGED << durationGroups, timeSlots, hashtagStats, musicStats, analysisResults >>

\* analyzeDuration(videos): line 21
CallAnalyzeDuration ==
    /\ pc = "idle"
    /\ pc' = "forEach"
    /\ method' = "analyzeDuration"
    /\ durationGroups' = EmptyObject
    /\ UNCHANGED << videos, timeSlots, hashtagStats, musicStats, analysisResults, result >>

\* lines 22-35, one video
DurationForEach ==
    /\ pc = "forEach"
    /\ method = "analyzeDuration"
    /\ Len(videos) < MaxDurationVideos
    /\ \E video \in DurationVideos :
           /\ videos' = Append(videos, video)
           /\ durationGroups' = DurationStep(durationGroups, video)
    /\ UNCHANGED << pc, method, timeSlots, hashtagStats, musicStats, analysisResults, result >>

\* lines 37-54, at the end of the list
DurationReturn ==
    /\ pc = "forEach"
    /\ method = "analyzeDuration"
    /\ result' = DurationResult(durationGroups)
    /\ pc' = "returned"
    /\ UNCHANGED << method, videos, durationGroups, timeSlots, hashtagStats, musicStats,
                    analysisResults >>

\* analyzePostingTimes(videos): line 59
CallAnalyzePostingTimes ==
    /\ pc = "idle"
    /\ pc' = "forEach"
    /\ method' = "analyzePostingTimes"
    /\ timeSlots' = EmptyObject
    /\ UNCHANGED << videos, durationGroups, hashtagStats, musicStats, analysisResults, result >>

\* lines 61-80, one video
PostingForEach ==
    /\ pc = "forEach"
    /\ method = "analyzePostingTimes"
    /\ Len(videos) < MaxPostingVideos
    /\ \E video \in PostingVideos :
           /\ videos' = Append(videos, video)
           /\ timeSlots' = PostingStep(timeSlots, video)
    /\ UNCHANGED << pc, method, durationGroups, hashtagStats, musicStats, analysisResults, result >>

\* lines 83-89, at the end of the list
PostingReturn ==
    /\ pc = "forEach"
    /\ method = "analyzePostingTimes"
    /\ result' \in PostingResults(timeSlots)
    /\ pc' = "returned"
    /\ UNCHANGED << method, videos, durationGroups, timeSlots, hashtagStats, musicStats,
                    analysisResults >>

\* analyzeHashtags(videos): line 94
CallAnalyzeHashtags ==
    /\ pc = "idle"
    /\ pc' = "forEach"
    /\ method' = "analyzeHashtags"
    /\ hashtagStats' = EmptyObject
    /\ UNCHANGED << videos, durationGroups, timeSlots, musicStats, analysisResults, result >>

\* lines 96-113, one video; the TypeError of line 111 ends the call
HashtagForEach ==
    /\ pc = "forEach"
    /\ method = "analyzeHashtags"
    /\ Len(videos) < MaxHashtagVideos
    /\ \E video \in HashtagVideos :
           LET step == HashtagStep(hashtagStats, video)
           IN /\ videos' = Append(videos, video)
              /\ hashtagStats' = step.stats
              /\ pc' = IF step.threw THEN "threw" ELSE "forEach"
    /\ UNCHANGED << method, durationGroups, timeSlots, musicStats, analysisResults, result >>

\* lines 116-124, at the end of the list
HashtagReturn ==
    /\ pc = "forEach"
    /\ method = "analyzeHashtags"
    /\ result' \in HashtagResults(hashtagStats)
    /\ pc' = "returned"
    /\ UNCHANGED << method, videos, durationGroups, timeSlots, hashtagStats, musicStats,
                    analysisResults >>

\* analyzeMusic(videos): line 129
CallAnalyzeMusic ==
    /\ pc = "idle"
    /\ pc' = "forEach"
    /\ method' = "analyzeMusic"
    /\ musicStats' = EmptyObject
    /\ UNCHANGED << videos, durationGroups, timeSlots, hashtagStats, analysisResults, result >>

\* lines 131-147, one video; the TypeError of line 146 ends the call
MusicForEach ==
    /\ pc = "forEach"
    /\ method = "analyzeMusic"
    /\ Len(videos) < MaxMusicVideos
    /\ \E video \in MusicVideos :
           LET step == MusicStep(musicStats, video)
           IN /\ videos' = Append(videos, video)
              /\ musicStats' = step.stats
              /\ pc' = IF step.threw THEN "threw" ELSE "forEach"
    /\ UNCHANGED << method, durationGroups, timeSlots, hashtagStats, analysisResults, result >>

\* lines 149-157, at the end of the list
MusicReturn ==
    /\ pc = "forEach"
    /\ method = "analyzeMusic"
    /\ result' \in MusicResults(musicStats)
    /\ pc' = "returned"
    /\ UNCHANGED << method, videos, durationGroups, timeSlots, hashtagStats, musicStats,
                    analysisResults >>

\* generateRecommendations(analysisResults), lines 161-182
CallGenerateRecommendations ==
    /\ pc = "idle"
    /\ method' = "generateRecommendations"
    /\ \E input \in RecInputs :
           /\ analysisResults' = input
           /\ IF RecommendationsThrow(input)
              THEN pc' = "threw" /\ result' = result
              ELSE pc' = "returned" /\ result' = generateRecommendations(input)
    /\ UNCHANGED << videos, durationGroups, timeSlots, hashtagStats, musicStats >>

\* analyzeVideoBatch(videos), lines 191-205: the four analyses in the order of
\* lines 193-196, then the recommendations.  An exception rejects the promise.
CallAnalyzeVideoBatch ==
    /\ pc = "idle"
    /\ method' = "analyzeVideoBatch"
    /\ \E input \in SeqsUpTo(BatchVideos, MaxBatchVideos) :
           LET groups == DurationGroupsOf(EmptyObject, input)
               slots == TimeSlotsOf(EmptyObject, input)
               tags == HashtagStatsOf(EmptyObject, input)
               music == MusicStatsOf(EmptyObject, input)
           IN /\ videos' = input
              /\ durationGroups' = groups
              /\ timeSlots' = slots
              /\ hashtagStats' = tags.stats
              /\ IF tags.threw
                 THEN /\ pc' = "threw"
                      /\ UNCHANGED << musicStats, analysisResults, result >>
                 ELSE /\ musicStats' = music.stats
                      /\ IF music.threw
                         THEN /\ pc' = "threw"
                              /\ UNCHANGED << analysisResults, result >>
                         ELSE \E bestPostingTimes \in PostingResults(slots),
                                 topHashtags \in HashtagResults(tags.stats),
                                 topMusic \in MusicResults(music.stats) :
                                  LET results == [optimalDuration |-> DurationResult(groups),
                                                  bestPostingTimes |-> bestPostingTimes,
                                                  topHashtags |-> topHashtags,
                                                  topMusic |-> topMusic]
                                  IN /\ analysisResults' = results
                                     /\ IF RecommendationsThrow(results)
                                        THEN pc' = "threw" /\ result' = result
                                        ELSE /\ pc' = "returned"
                                             /\ result' =
                                                   [analysisResults |-> results,
                                                    recommendations |->
                                                        generateRecommendations(results)]

NextEngagement == CallCalculateEngagementRate

NextDuration == CallAnalyzeDuration \/ DurationForEach \/ DurationReturn

NextPostingTimes == CallAnalyzePostingTimes \/ PostingForEach \/ PostingReturn

NextHashtags == CallAnalyzeHashtags \/ HashtagForEach \/ HashtagReturn

NextMusic == CallAnalyzeMusic \/ MusicForEach \/ MusicReturn

NextAggregators == NextDuration \/ NextPostingTimes \/ NextHashtags \/ NextMusic

Next ==
    \/ NextEngagement
    \/ NextAggregators
    \/ CallGenerateRecommendations
    \/ CallAnalyzeVideoBatch

Spec == Init /\ [][Next]_vars

SpecEngagement == Init /\ [][NextEngagement]_vars

SpecDuration == Init /\ [][NextDuration]_vars

SpecPostingTimes == Init /\ [][NextPostingTimes]_vars

SpecHashtags == Init /\ [][NextHashtags]_vars

SpecAggregators == Init /\ [][NextAggregators]_vars

SpecRecommendations == Init /\ [][CallGenerateRecommendations]_vars

SpecBatch == Init /\ [][CallAnalyzeVideoBatch]_vars

\* ==================================================================== claims
\* what the claims refer to in the input, computed from the videos read
RECURSIVE SumRates(_)
SumRates(list) ==
    IF list = << >> THEN Zero ELSE Add(calculateEngagementRate(Head(list)), SumRates(Tail(list)))

Returned(m) == pc = "returned" /\ method = m

InputDurations == { Floor(videos[i].duration) : i \in 1..Len(videos) }

DurationGroupVideos(d) == SelectSeq(videos, LAMBDA v : Floor(v.duration) = d)

DurationGroupAvg(d) == DivInt(SumRates(DurationGroupVideos(d)), Len(DurationGroupVideos(d)))

GreatestAvgDurations ==
    { d \in InputDurations : \A e \in InputDurations : ~Less(DurationGroupAvg(d), DurationGroupAvg(e)) }

FirstDurationIndex(d) ==
    CHOOSE i \in 1..Len(videos) :
        /\ Floor(videos[i].duration) = d
        /\ \A j \in 1..(i - 1) : Floor(videos[j].duration) # d

SomePositiveDurationAvg == \E d \in InputDurations : Less(Zero, DurationGroupAvg(d))

\* ------------------------------------------------------------------------ C1
\* C1: calculateEngagementRate returns 0 when views = 0, whatever likes,
\* comments and shares are, and exactly (likes + comments + shares) / views
\* when views > 0.
C1_EngagementRate ==
    Returned("calculateEngagementRate") =>
        LET stats == videos[1].stats
        IN IF stats.views = 0
           THEN result = Zero
           ELSE /\ IsFinite(result)
                /\ result.n * stats.views = (stats.likes + stats.comments + stats.shares) * result.d

\* a call with views > 0 whose rate is no integer has returned
C1_Witness ==
    /\ Returned("calculateEngagementRate")
    /\ videos[1].stats.views = 2
    /\ videos[1].stats.likes + videos[1].stats.comments + videos[1].stats.shares = 3
    /\ videos[1].stats.shares = 1
    /\ result = [k |-> "fin", n |-> 3, d |-> 2]

C10_PlaceholderOrBest ==
    Returned("analyzeDuration") =>
        IF ~SomePositiveDurationAvg
        THEN /\ DOMAIN result = { "duration", "avgEngagement" }
             /\ result.duration = Zero
             /\ result.avgEngagement = Zero
        ELSE /\ DOMAIN result = { "duration", "avgEngagement", "sampleSize" }
             /\ \A d \in InputDurations : ~Less(result.avgEngagement, DurationGroupAvg(d))
             /\ \E i \in 1..Len(videos) :
                    /\ result.duration = Num(Floor(videos[i].duration), 1)
                    /\ result.avgEngagement = DurationGroupAvg(Floor(videos[i].duration))
                    /\ result.sampleSize =
                           Cardinality({ j \in 1..Len(videos) :
                                            Floor(videos[j].duration) = Floor(videos[i].duration) })
             /\ result.sampleSize >= 1

\* a non-empty input in which every video has engagement 0 gave the placeholder
C10_Witness ==
    /\ Returned("analyzeDuration")
    /\ Len(videos) >= 2
    /\ ~SomePositiveDurationAvg
    /\ DOMAIN result = { "duration", "avgEngagement" }

\* ------------------------------------------------------------------------ C4
SlotOf(video) == << getDay(video.createTime), getHours(video.createTime) >>

InputSlots == { SlotOf(videos[i]) : i \in 1..Len(videos) }

SlotVideos(slot) == SelectSeq(videos, LAMBDA v : SlotOf(v) = slot)

SlotAvg(slot) == DivInt(SumRates(SlotVideos(slot)), Len(SlotVideos(slot)))

ResultSlots == { << result[i].day, result[i].hour >> : i \in 1..Len(result) }

\* C4: analyzePostingTimes returns exactly min(5, number of distinct (day,
\* hour) slots in the input) entries, each a distinct slot of the input with
\* its average engagement, ordered non-increasing by that average, and no slot
\* left out has a strictly greater average than a slot in the result.
C4_TopFiveSlots ==
    Returned("analyzePostingTimes") =>
        /\ Len(result) = IF Cardinality(InputSlots) < 5 THEN Cardinality(InputSlots) ELSE 5
        /\ \A i \in 1..Len(result) :
               /\ << result[i].day, result[i].hour >> \in InputSlots
               /\ result[i].avgEngagement = SlotAvg(<< result[i].day, result[i].hour >>)
        /\ \A i, j \in 1..Len(result) :
               i < j => /\ << result[i].day, result[i].hour >> # << result[j].day, result[j].hour >>
                        /\ ~Less(result[i].avgEngagement, result[j].avgEngagement)
        /\ \A slot \in InputSlots \ ResultSlots :
               \A i \in 1..Len(result) : ~Less(result[i].avgEngagement, SlotAvg(slot))

\* six distinct slots were posted in, five were returned, and the one left
\* out has a smaller average than the first returned
C4_Witness ==
    /\ Returned("analyzePostingTimes")
    /\ Cardinality(InputSlots) = 6
    /\ Len(result) = 5
    /\ \E slot \in InputSlots \ ResultSlots : Less(SlotAvg(slot), result[1].avgEngagement)
    /\ Less(result[5].avgEngagement, result[1].avgEngagement)

\* ------------------------------------------------------------------------ C6
RECURSIVE CountIn(_, _)
CountIn(list, x) ==
    IF list = << >> THEN 0 ELSE (IF Head(list) = x THEN 1 ELSE 0) + CountIn(Tail(list), x)

RECURSIVE TagUses(_, _)
TagUses(list, tag) ==
    IF list = << >> THEN 0 ELSE CountIn(Head(list).hashtags, tag) + TagUses(Tail(list), tag)

RECURSIVE TagViews(_, _)
TagViews(list, tag) ==
    IF list = << >> THEN 0
    ELSE CountIn(Head(list).hashtags, tag) * Head(list).stats.views + TagViews(Tail(list), tag)

RECURSIVE TagRates(_, _)
TagRates(list, tag) ==
    IF list = << >> THEN Zero
    ELSE Add(Mul(Num(CountIn(Head(list).hashtags, tag), 1), calculateEngagementRate(Head(list))),
             TagRates(Tail(list), tag))

InputTags == UNION { { videos[i].hashtags[t] : t \in 1..Len(videos[i].hashtags) } : i \in 1..Len(videos) }

\* C6: analyzeHashtags does not de-duplicate inside a video's tag list: for
\* every tag, useCount is the number of occurrences of the tag over all the
\* videos' lists, totalViews the sum of the video's views once per occurrence,
\* avgEngagement the sum of the video's engagement rate once per occurrence
\* divided by useCount; a video without hashtags contributes to no entry.
C6_NoDeduplication ==
    Returned("analyzeHashtags") =>
        /\ { result[i].tag : i \in 1..Len(result) } = InputTags
        /\ \A i \in 1..Len(result) :
               /\ result[i].useCount = TagUses(videos, result[i].tag)
               /\ result[i].totalViews = TagViews(videos, result[i].tag)
               /\ result[i].avgEngagement =
                      DivInt(TagRates(videos, result[i].tag), TagUses(videos, result[i].tag))

\* a video that repeats a tag and a video without tags were analysed, and the
\* repeated tag was counted twice with the views twice
C6_Witness ==
    /\ Returned("analyzeHashtags")
    /\ Len(videos) = 2
    /\ videos[1].hashtags = << << "a" >>, << "a" >> >>
    /\ videos[1].stats.views = 2
    /\ videos[2].hashtags = << >>
    /\ Len(result) = 1
    /\ result[1].useCount = 2
    /\ result[1].totalViews = 4

\* ------------------------------------------------------------------------ C7
FirstOf(out, in, n) ==
    /\ Len(out) = IF Len(in) < n THEN Len(in) ELSE n
    /\ \A i \in 1..Len(out) : out[i] = in[i]

DayName(day) ==
    CASE day = 0 -> "dimanche" [] day = 1 -> "lundi" [] day = 2 -> "mardi"
      [] day = 3 -> "mercredi" [] day = 4 -> "jeudi" [] day = 5 -> "vendredi"
      [] day = 6 -> "samedi"

\* C7: generateRecommendations projects its argument: timing.bestTimes is the
\* first min(3, n) entries of bestPostingTimes in order, hashtags.recommended
\* the first min(5, n) of topHashtags, music.trending the first min(3, n) of
\* topMusic, duration.optimal is optimalDuration, and the timing sentence
\* names the day and the hour of bestPostingTimes[0].
C7_Projection ==
    Returned("generateRecommendations") =>
        /\ FirstOf(result.timing.bestTimes, analysisResults.bestPostingTimes, 3)
        /\ FirstOf(result.hashtags.recommended, analysisResults.topHashtags, 5)
        /\ FirstOf(result.music.trending, analysisResults.topMusic, 3)
        /\ result.duration.optimal = analysisResults.optimalDuration
        /\ LET sentence == result.timing.recommendation
               best == analysisResults.bestPostingTimes[1]
               hour == SubSeq(sentence, 4, Len(sentence) - 1)
           IN /\ sentence[2] = DayName(best.day)
              /\ sentence[3] = " à "
              /\ hour # << >>
              /\ \A i \in 1..Len(hour) : IsDigit(hour[i])
              /\ ParseDigits(hour, 0) = best.hour
              /\ sentence[Len(sentence)] = "h00"

\* an argument with four time slots, six hashtags and no music was projected,
\* its best slot a Saturday
C7_Witness ==
    /\ Returned("generateRecommendations")
    /\ Len(analysisResults.bestPostingTimes) = 4
    /\ Len(analysisResults.topHashtags) = 6
    /\ analysisResults.topHashtags[5] # analysisResults.topHashtags[6]
    /\ Len(analysisResults.topMusic) = 0
    /\ analysisResults.bestPostingTimes[1].day = 6
    /\ Len(result.timing.bestTimes) = 3
    /\ Len(result.hashtags.recommended) = 5

\* ------------------------------------------------------------------------ C9
GroupCountsPositive(obj) == \A i \in 1..Len(obj) : obj[i].value.count >= 1

RECURSIVE SumCounts(_)
SumCounts(obj) == IF obj = << >> THEN 0 ELSE Head(obj).value.count + SumCounts(Tail(obj))

RECURSIVE TagOccurrences(_)
TagOccurrences(list) ==
    IF list = << >> THEN 0 ELSE Len(Head(list).hashtags) + TagOccurrences(Tail(list))

\* C9: after every step of every aggregation loop each group of the group map
\* has count >= 1, so every average divides by a count >= 1; when the call
\* returns, the counts sum to the number of input videos for the duration,
\* posting-time and music groups and to the number of hashtag occurrences for
\* the hashtag groups.
C9_CountsPositiveAndComplete ==
    /\ GroupCountsPositive(durationGroups)
    /\ GroupCountsPositive(timeSlots)
    /\ GroupCountsPositive(hashtagStats)
    /\ GroupCountsPositive(musicStats)
    /\ Returned("analyzeDuration") => SumCounts(durationGroups) = Len(videos)
    /\ Returned("analyzePostingTimes") => SumCounts(timeSlots) = Len(videos)
    /\ Returned("analyzeMusic") => SumCounts(musicStats) = Len(videos)
    /\ Returned("analyzeHashtags") => SumCounts(hashtagStats) = TagOccurrences(videos)

\* two videos with three hashtag occurrences in two groups were analysed
C9_Witness ==
    /\ Returned("analyzeHashtags")
    /\ Len(videos) = 2
    /\ TagOccurrences(videos) = 3
    /\ Len(hashtagStats) = 2
    /\ SumCounts(hashtagStats) = 3

\* ------------------------------------------------------------------------ C2
\* C2: analyzeVideoBatch on an empty list completes without faulting, with
\* optimalDuration {duration 0, avgEngagement 0}, empty bestPostingTimes,
\* topHashtags and topMusic, and recommendations whose timing part is a
\* placeholder for the empty bestPostingTimes.
C2_EmptyBatchCompletes ==
    (method = "analyzeVideoBatch" /\ videos = << >>) =>
        /\ pc = "returned"
        /\ analysisResults.optimalDuration = [duration |-> Zero, avgEngagement |-> Zero]
        /\ analysisResults.bestPostingTimes = << >>
        /\ analysisResults.topHashtags = << >>
        /\ analysisResults.topMusic = << >>
        /\ result.analysisResults = analysisResults
        /\ result.recommendations.timing.bestTimes = << >>

\* ------------------------------------------------------------------------ C5
InputMusic == { videos[i].music : i \in 1..Len(videos) }

NonIncreasingScores(ranked) ==
    \A i, j \in 1..Len(ranked) :
        i < j => ~Less(ranked[i].performanceScore, ranked[j].performanceScore)

\* C5: analyzeHashtags and analyzeMusic return exactly one entry per distinct
\* key of the input, groups without views included, and the returned sequence
\* is sorted non-increasing by performanceScore: no entry has a smaller score
\* than an entry after it.
C5_OneEntryPerKeySorted ==
    /\ Returned("analyzeHashtags") =>
           /\ { result[i].tag : i \in 1..Len(result) } = InputTags
           /\ Len(result) = Cardinality(InputTags)
           /\ NonIncreasingScores(result)
    /\ Returned("analyzeMusic") =>
           /\ { result[i].music : i \in 1..Len(result) } = InputMusic
           /\ Len(result) = Cardinality(InputMusic)
           /\ NonIncreasingScores(result)

\* ------------------------------------------------------------------------ C8
RECURSIVE AllTags(_)
AllTags(list) == IF list = << >> THEN << >> ELSE Head(list).hashtags \o AllTags(Tail(list))

FirstPosition(list, x) ==
    CHOOSE i \in 1..Len(list) : list[i] = x /\ \A j \in 1..(i - 1) : list[j] # x

EqualScores(a, b) == SubSign(a, b) = "zero"

\* C8: in the results of analyzePostingTimes, analyzeHashtags and
\* analyzeMusic, two groups with equal ranking score stand in the order in
\* which their keys are first met in the input, for any string keys.
C8_TiesInEncounterOrder ==
    /\ Returned("analyzePostingTimes") =>
           \A i, j \in 1..Len(result) :
               (i < j /\ EqualScores(result[i].avgEngagement, result[j].avgEngagement)) =>
                   FirstPosition([v \in 1..Len(videos) |-> SlotOf(videos[v])],
                                 << result[i].day, result[i].hour >>)
                     < FirstPosition([v \in 1..Len(videos) |-> SlotOf(videos[v])],
                                     << result[j].day, result[j].hour >>)
    /\ Returned("analyzeHashtags") =>
           \A i, j \in 1..Len(result) :
               (i < j /\ EqualScores(result[i].performanceScore, result[j].performanceScore)) =>
                   FirstPosition(AllTags(videos), result[i].tag)
                     < FirstPosition(AllTags(videos), result[j].tag)
    /\ Returned("analyzeMusic") =>
           \A i, j \in 1..Len(result) :
               (i < j /\ EqualScores(result[i].performanceScore, result[j].performanceScore)) =>
                   FirstPosition([v \in 1..Len(videos) |-> videos[v].music], result[i].music)
                     < FirstPosition([v \in 1..Len(videos) |-> videos[v].music], result[j].music)

====
